---- MODULE Spec2Model ----
(***************************************************************************)
(* Family-tree generator: the breadth-first expansion engine, the person   *)
(* factory and the birth-year distribution, in both implementations of the *)
(* repository:                                                             *)
(*   "orig" : FamilyTree.py  + PersonFactory.py                            *)
(*   "ai"   : family_tree_ai.py + person_factory_ai.py + person_ai.py      *)
(*                                                                         *)
(* Numbers.  Years are integers.  The floats of the demographic table      *)
(* (life expectancy, birth rate, marriage rate) are kept in tenths, as     *)
(* integers; weights are non-negative integers.  A float expression of the *)
(* code is computed exactly on these rationals (ceil, int(), round() with  *)
(* Python's round-half-to-even).                                           *)
(*                                                                         *)
(* Random draws are nondeterministic choices.  A Person object is the      *)
(* index of its record in the registry (every Person the code creates is   *)
(* appended to the registry in the same step); spouse = 0 is None.         *)
(***************************************************************************)
EXTENDS Integers, Sequences, FiniteSets, TLC

VARIABLES
    impl,         \* which implementation runs: "orig" or "ai"
    table,        \* the loaded demographic table (read_files)
    variations,   \* the values random.randint(-10, 10) may give a year_died
    people,       \* the registry: self.people / self._registry
    queue,        \* the work queue: self.queue / frontier (registry indices)
    pc,           \* position of the run
    current,      \* current_person / person: the dequeued person (0: none)
    child_years,  \* the birth years of the for loop still to be visited
    err,          \* the exception that ended the run ("" while none)
    call,         \* the last call of a pure or reporting routine, with its result
    dequeued      \* history: the persons popped from the queue, in order

vars == <<impl, table, variations, people, queue, pc, current, child_years, err,
          call, dequeued>>

Impls == {"orig", "ai"}

(***************************************************************************)
(* Program constants                                                       *)
(***************************************************************************)
FOUNDER_YEAR == 1950
CUTOFF_YEAR == 2120
YEAR_MIN == 1950
YEAR_MAX == 2129
NOISE == 10
WINDOW_START == 25
WINDOW_END == 45
\* defaults of person_factory_ai.py, in tenths: 2.0, 0.5, 80.0
DEFAULT_BIRTH_RATE == 20
DEFAULT_MARRIAGE_RATE == 5
DEFAULT_LIFE_EXPECTANCY == 800

FOUNDER_LAST_NAMES == <<"Jones", "Smith">>

(***************************************************************************)
(* Arithmetic of the code on rationals n/d, d > 0                          *)
(***************************************************************************)
Min(a, b) == IF a <= b THEN a ELSE b
Max(a, b) == IF a >= b THEN a ELSE b

\* math.ceil / numpy.ceil of n/d
Ceil(n, d) == -((-n) \div d)

\* int() of n/d: truncation toward zero
Trunc(n, d) == IF n >= 0 THEN n \div d ELSE -((-n) \div d)

\* round() of n/d: to the nearest integer, a tie to the even one
PyRound(n, d) ==
    LET q == n \div d
        r == n % d
    IN  IF 2 * r < d THEN q
        ELSE IF 2 * r > d THEN q + 1
        ELSE IF q % 2 = 0 THEN q ELSE q + 1

\* f"{(year // 10) * 10}s"
DecadeKey(year) == ToString((year \div 10) * 10) \o "s"

RECURSIVE SumWeights(_)
SumWeights(choices) ==
    IF choices = <<>> THEN 0
    ELSE choices[1][2] + SumWeights(Tail(choices))

(***************************************************************************)
(* Birth-year distribution                                                 *)
(***************************************************************************)
\* distribute_birth_years with the midpoint's division misplaced:
\* round(start + end / 2)
distribute_birth_years_midpoint(start, end, num_children) ==
    IF num_children <= 0 THEN <<>>
    ELSE IF num_children = 1 THEN << PyRound(2 * start + end, 2) >>
    ELSE [i \in 1..num_children |->
             Min(end, Max(start,
                 PyRound(start * (num_children - 1) + (i - 1) * (end - start),
                         num_children - 1)))]

\* distribute_birth_years with the single child's midpoint rounded half up
distribute_birth_years_halfup(start, end, num_children) ==
    IF num_children <= 0 THEN <<>>
    ELSE IF num_children = 1 THEN << (start + end + 1) \div 2 >>
    ELSE [i \in 1..num_children |->
             Min(end, Max(start,
                 PyRound(start * (num_children - 1) + (i - 1) * (end - start),
                         num_children - 1)))]

\* FamilyTree.distribute_birth_years: the rounding, then the clamp
distribute_birth_years(start, end, num_children) ==
    IF num_children <= 0 THEN <<>>
    ELSE IF num_children = 1 THEN << PyRound(start + end, 2) >>
    ELSE LET birth_years ==
                 [i \in 1..num_children |->
                     PyRound(start * (num_children - 1) + (i - 1) * (end - start),
                             num_children - 1)]
         IN  [i \in 1..num_children |-> Min(end, Max(start, birth_years[i]))]

\* _spread_birth_years with step = (end - start) / count
spread_birth_years_step(start, end, count) ==
    IF count <= 0 THEN <<>>
    ELSE IF count = 1 THEN << PyRound(start + end, 2) >>
    ELSE [i \in 1..count |->
             Min(end, Max(start,
                 PyRound(start * count + (i - 1) * (end - start), count)))]

\* FamilyTree._spread_birth_years (family_tree_ai.py)
spread_birth_years(start, end, count) ==
    IF count <= 0 THEN <<>>
    ELSE IF count = 1 THEN << PyRound(start + end, 2) >>
    ELSE [i \in 1..count |->
             Min(end, Max(start,
                 PyRound(start * (count - 1) + (i - 1) * (end - start), count - 1)))]

BirthYears(im, start, end, count) ==
    IF im = "orig" THEN distribute_birth_years(start, end, count)
    ELSE spread_birth_years(start, end, count)

(***************************************************************************)
(* Person (person_ai.py; the Person of FamilyTree.py has the same fields)  *)
(***************************************************************************)
Person(year_born, year_died, first_name, last_name) ==
    [year_born |-> year_born, year_died |-> year_died,
     first_name |-> first_name, last_name |-> last_name,
     spouse |-> 0, children |-> <<>>]

NoPerson == Person(0, 0, "", "")

\* override_last_name = None
None == "<None>"

(***************************************************************************)
(* The loaded demographic table.  table.first_names maps <<decade, gender>>*)
(* to a list of <<name, weight>>; last_names maps a decade to such a list; *)
(* life_expectancy, birth_rates, marriage_rates map a decade to tenths.    *)
(* A decade with no row in a file is outside the map's domain.             *)
(***************************************************************************)
Genders == {"male", "female"}

\* PersonFactory.py: defaultdict(list) filled from every row of the decade
first_name_by_decade(t, decade) ==
    (IF <<decade, "male">> \in DOMAIN t.first_names
         THEN t.first_names[<<decade, "male">>] ELSE <<>>)
    \o (IF <<decade, "female">> \in DOMAIN t.first_names
         THEN t.first_names[<<decade, "female">>] ELSE <<>>)

last_name_by_decade(t, decade) ==
    IF decade \in DOMAIN t.last_names THEN t.last_names[decade] ELSE <<>>

\* person_factory_ai.py: dict.get with a default
get_first_names(t, decade, gender) ==
    IF <<decade, gender>> \in DOMAIN t.first_names
        THEN t.first_names[<<decade, gender>>] ELSE << <<"Unknown", 10>> >>

get_last_names(t, decade) ==
    IF decade \in DOMAIN t.last_names
        THEN t.last_names[decade] ELSE << <<"Unknown", 10>> >>

get_birth_rate(t, decade) ==
    IF decade \in DOMAIN t.birth_rates
        THEN t.birth_rates[decade] ELSE DEFAULT_BIRTH_RATE

get_marriage_rate(t, decade) ==
    IF decade \in DOMAIN t.marriage_rates
        THEN t.marriage_rates[decade] ELSE DEFAULT_MARRIAGE_RATE

get_life_expectancy(t, decade) ==
    IF decade \in DOMAIN t.life_expectancy
        THEN t.life_expectancy[decade] ELSE DEFAULT_LIFE_EXPECTANCY

(***************************************************************************)
(* Weighted selection.  An outcome is [exc, name]: exc is the exception    *)
(* raised ("" when the call returns name).                                 *)
(***************************************************************************)
\* random.choices(names, weights=weights, k=1)[0] of Python >= 3.9:
\* IndexError on an empty population, ValueError when the weights total
\* zero, else an item of positive weight
RandomChoices(choices) ==
    IF choices = <<>> THEN {[exc |-> "IndexError", name |-> ""]}
    ELSE IF SumWeights(choices) <= 0 THEN {[exc |-> "ValueError", name |-> ""]}
    ELSE {[exc |-> "", name |-> choices[i][1]] :
              i \in {j \in 1..Len(choices) : choices[j][2] > 0}}

\* PersonFactory.weighted_choice
weighted_choice(choices) == RandomChoices(choices)

\* PersonFactory._weighted_pick
weighted_pick(choices) ==
    IF choices = <<>> THEN {[exc |-> "", name |-> "Unknown"]}
    ELSE RandomChoices(choices)

WeightedSelect(im, choices) ==
    IF im = "orig" THEN weighted_choice(choices) ELSE weighted_pick(choices)

(***************************************************************************)
(* Person generation.  An outcome is [exc, person].                        *)
(***************************************************************************)
\* variation = random.randint(-10, 10) of a year_died: the values this run
\* may draw
Variations == variations

\* a spouse born within 20 years of the person instead of 10
SpouseVariations_wide == {-2 * NOISE, 0, 2 * NOISE}

\* random.randint(-10, 10) of a spouse's year of birth: both extremes and
\* the middle
SpouseVariations == {-NOISE, 0, NOISE}

\* a year past the data wrapped to its first year instead of its last
clamp_year_to_data_wrapped(year) ==
    IF year < YEAR_MIN THEN YEAR_MIN
    ELSE IF year > YEAR_MAX THEN YEAR_MIN
    ELSE year

\* PersonFactory.clamp_year_to_data
clamp_year_to_data(year) ==
    IF year < YEAR_MIN THEN YEAR_MIN
    ELSE IF year > YEAR_MAX THEN YEAR_MAX
    ELSE year

\* PersonFactory._clamp_year
clamp_year(year) == Max(YEAR_MIN, Min(YEAR_MAX, year))

Raised(e) == [exc |-> e, person |-> NoPerson]

\* year_died with the variation counted twice
YearDied_twice(year_born, life_expectancy, variation) ==
    Trunc(10 * year_born + life_expectancy + 20 * variation, 10)

\* int(year_born + life_expectancy + variation), life_expectancy in tenths
YearDied(year_born, life_expectancy, variation) ==
    Trunc(10 * year_born + life_expectancy + 10 * variation, 10)

\* PersonFactory.get_person of PersonFactory.py
get_person_orig(t, year) ==
    LET year_born == clamp_year_to_data(year)
        decade == DecadeKey(year_born)
        firsts == weighted_choice(first_name_by_decade(t, decade))
        lasts == weighted_choice(last_name_by_decade(t, decade))
    IN  IF \E f \in firsts : f.exc # "" THEN {Raised(f.exc) : f \in firsts}
        ELSE IF \E l \in lasts : l.exc # "" THEN {Raised(l.exc) : l \in lasts}
        ELSE IF decade \notin DOMAIN t.life_expectancy THEN {Raised("KeyError")}
        ELSE {[exc |-> "",
               person |-> Person(year_born,
                                 YearDied(year_born, t.life_expectancy[decade], v),
                                 f.name, l.name)] :
                  f \in firsts, l \in lasts, v \in Variations}

\* PersonFactory.get_person of person_factory_ai.py
get_person_ai(t, year, override_last_name) ==
    LET year_born == clamp_year(year)
        decade == DecadeKey(year_born)
        lasts == IF override_last_name # None
                     THEN {[exc |-> "", name |-> override_last_name]}
                     ELSE weighted_pick(get_last_names(t, decade))
        expectancy == get_life_expectancy(t, decade)
    IN  UNION { LET firsts == weighted_pick(get_first_names(t, decade, gender))
                IN  IF \E f \in firsts : f.exc # "" THEN {Raised(f.exc) : f \in firsts}
                    ELSE IF \E l \in lasts : l.exc # "" THEN {Raised(l.exc) : l \in lasts}
                    ELSE {[exc |-> "",
                           person |-> Person(year_born,
                                             YearDied(year_born, expectancy, v),
                                             f.name, l.name)] :
                              f \in firsts, l \in lasts, v \in Variations}
              : gender \in Genders }

(***************************************************************************)
(* Demographic tables the model loads.  Decades are named by their first   *)
(* year; a table is built from per-decade values.                          *)
(***************************************************************************)
Decades(first, last) == {first + 10 * i : i \in 0..((last - first) \div 10)}

AllDecades == Decades(1950, 2120)

ByDecade(years, val(_)) ==
    [k \in {DecadeKey(y) : y \in years} |->
        val(CHOOSE y \in years : DecadeKey(y) = k)]

ByDecadeGender(years, val(_, _)) ==
    [k \in {<<DecadeKey(y), g>> : y \in years, g \in Genders} |->
        val(CHOOSE y \in years : DecadeKey(y) = k[1], k[2])]

\* one unisex first name per decade
FirstNames(y, g) == << <<"Kai", 10>> >>

\* two first names, by gender
GenderedFirstNames(y, g) ==
    IF g = "male" THEN << <<"Liam", 10>> >> ELSE << <<"Emma", 10>> >>

\* "Smith" has a rank with no probability (weight 0.0)
LastNames(y) == << <<"Lee", 10>>, <<"Smith", 0>> >>

\* A single line of descent: at most one child everywhere (birth rate
\* -0.5); marriage is certain in the 2090s and 2110s.
TableChain ==
    [first_names |-> ByDecadeGender(AllDecades, FirstNames),
     last_names |-> ByDecade(AllDecades, LastNames),
     life_expectancy |-> ByDecade(AllDecades, LAMBDA y : 780),
     birth_rates |-> ByDecade(AllDecades, LAMBDA y : -5),
     marriage_rates |-> ByDecade(AllDecades,
         LAMBDA y : IF y \in {2090, 2110} THEN 10 ELSE 0)]

\* Up to two children (birth rate 0.5) in the 1950s, 1990s and 2040s, one
\* to four (birth rate 2.0) in the 2080s, none elsewhere (birth rate -1.5);
\* marriage is certain in the 2120s.
TableWide ==
    [first_names |-> ByDecadeGender(AllDecades, FirstNames),
     last_names |-> ByDecade(AllDecades, LastNames),
     life_expectancy |-> ByDecade(AllDecades, LAMBDA y : 780),
     birth_rates |-> ByDecade(AllDecades,
         LAMBDA y : IF y \in {1950, 1990, 2040} THEN 5
                    ELSE IF y = 2080 THEN 20 ELSE -15),
     marriage_rates |-> ByDecade(AllDecades,
         LAMBDA y : IF y = 2120 THEN 10 ELSE 0)]

\* No row for the 1980s in any file; children only of the founders and,
\* by the default birth rate, of those born in the 1980s.
TableSparse ==
    LET present == AllDecades \ {1980}
    IN  [first_names |-> ByDecadeGender(present, FirstNames),
         last_names |-> ByDecade(present, LastNames),
         life_expectancy |-> ByDecade(present, LAMBDA y : 780),
         birth_rates |-> ByDecade(present,
             LAMBDA y : IF y = 1950 THEN -5 ELSE -15),
         marriage_rates |-> ByDecade(present, LAMBDA y : 0)]

\* Every file complete but for the marriage rate of the 1980s.
TableNoMarriage ==
    [first_names |-> ByDecadeGender(AllDecades, FirstNames),
     last_names |-> ByDecade(AllDecades, LastNames),
     life_expectancy |-> ByDecade(AllDecades, LAMBDA y : 780),
     birth_rates |-> ByDecade(AllDecades,
         LAMBDA y : IF y \in {1950, 1980} THEN -5 ELSE -15),
     marriage_rates |-> ByDecade(AllDecades \ {1980}, LAMBDA y : 0)]

\* Every file complete but for the birth rate of the 1980s.
TableNoBirth ==
    [first_names |-> ByDecadeGender(AllDecades, FirstNames),
     last_names |-> ByDecade(AllDecades, LastNames),
     life_expectancy |-> ByDecade(AllDecades, LAMBDA y : 780),
     birth_rates |-> ByDecade(AllDecades \ {1980},
         LAMBDA y : IF y = 1950 THEN -5 ELSE -15),
     marriage_rates |-> ByDecade(AllDecades,
         LAMBDA y : IF y = 1980 THEN 10 ELSE 0)]

\* No child but the founders'; two first names by gender, two last names,
\* life expectancy 11.0 in the 1950s, 10.5 in the 1980s, 78.0 elsewhere;
\* marriage at random in the 1980s.
TableLife ==
    [first_names |-> ByDecadeGender(AllDecades, GenderedFirstNames),
     last_names |-> ByDecade(AllDecades,
         LAMBDA y : << <<"Lee", 10>>, <<"Jones", 4>> >>),
     life_expectancy |-> ByDecade(AllDecades,
         LAMBDA y : IF y = 1950 THEN 110 ELSE IF y = 1980 THEN 105 ELSE 780),
     birth_rates |-> ByDecade(AllDecades,
         LAMBDA y : IF y = 1950 THEN -5 ELSE -15),
     marriage_rates |-> ByDecade(AllDecades,
         LAMBDA y : IF y = 1980 THEN 5 ELSE 0)]

\* One couple with children: the founders' only child, born 1985, marries
\* for certain and has up to two children (birth rate 0.5); nobody else has
\* any.  Marriage is certain in the 1950s too, for who has no spouse yet.
TableCouple ==
    [first_names |-> ByDecadeGender(AllDecades, FirstNames),
     last_names |-> ByDecade(AllDecades, LastNames),
     life_expectancy |-> ByDecade(AllDecades, LAMBDA y : 780),
     birth_rates |-> ByDecade(AllDecades,
         LAMBDA y : IF y = 1950 THEN -5 ELSE IF y = 1980 THEN 5 ELSE -15),
     marriage_rates |-> ByDecade(AllDecades,
         LAMBDA y : IF y \in {1950, 1980} THEN 10 ELSE 0)]

\* A run's inputs: the table, and the values random.randint(-10, 10) may
\* give a year_died.  The long lines of descent follow the lowest draw, the
\* short one both extremes.
Scenarios ==
    {[table |-> TableChain, variations |-> {-NOISE}],
     [table |-> TableWide, variations |-> {-NOISE}],
     [table |-> TableSparse, variations |-> {-NOISE}],
     [table |-> TableNoMarriage, variations |-> {-NOISE}],
     [table |-> TableNoBirth, variations |-> {-NOISE}],
     [table |-> TableCouple, variations |-> {-NOISE}],
     [table |-> TableLife, variations |-> {-NOISE, NOISE}]}

(***************************************************************************)
(* The run                                                                 *)
(***************************************************************************)
NoCall == [fn |-> "", impl |-> "", args |-> <<>>, exc |-> "", result |-> <<>>]

Init ==
    /\ impl \in Impls
    /\ \E sc \in Scenarios : table = sc.table /\ variations = sc.variations
    /\ people = <<>>
    /\ queue = <<>>
    /\ pc = "start"
    /\ current = 0
    /\ child_years = <<>>
    /\ err = ""
    /\ call = NoCall
    /\ dequeued = <<>>

\* an exception propagates out of the loop and ends the run
Abort(e) ==
    /\ pc' = "error"
    /\ err' = e
    /\ UNCHANGED <<impl, table, variations, people, child_years, call>>

\* FamilyTree.determine_year_died: the years the founder may die in
determine_year_died(t, year_born) ==
    {YearDied(year_born, t.life_expectancy[DecadeKey(year_born)], v) :
        v \in Variations}

\* FamilyTree._create_founders: 1950 + int(expectancy + random.randint(-10, 10))
founder_year_died(t) ==
    {FOUNDER_YEAR + Trunc(get_life_expectancy(t, "1950s") + 10 * v, 10) :
        v \in Variations}

FounderYearsDied(im, t) ==
    IF im = "orig" THEN determine_year_died(t, FOUNDER_YEAR)
    ELSE founder_year_died(t)

\* both founders put on the queue
InitialQueue_both == <<1, 2>>

\* self.queue.append(root1) / frontier = [self._founder_one]
InitialQueue == <<1>>

\* FamilyTree.init_roots / FamilyTree._create_founders (with the seeding of
\* the queue: self.queue.append(root1) / frontier = [self._founder_one])
CreateFounders ==
    /\ pc = "start"
    /\ IF impl = "orig" /\ DecadeKey(FOUNDER_YEAR) \notin DOMAIN table.life_expectancy
       THEN Abort("KeyError") /\ UNCHANGED <<queue, current, dequeued>>
       ELSE \E d1 \in FounderYearsDied(impl, table),
               d2 \in FounderYearsDied(impl, table) :
               /\ people' = << [Person(FOUNDER_YEAR, d1, "Desmond", "Jones")
                                   EXCEPT !.spouse = 2],
                               [Person(FOUNDER_YEAR, d2, "Molly", "Smith")
                                   EXCEPT !.spouse = 1] >>
               /\ queue' = InitialQueue
               /\ pc' = "loop"
               /\ UNCHANGED <<impl, table, variations, dequeued, current, child_years, err, call>>

\* random.random() in tenths: 0.0 .. 0.9
RandomUnit == 0..9

\* self.factory.get_person(spouse_year_born) /
\* self._factory.get_person(spouse_year)
SpouseOutcomes(im, t, year) ==
    IF im = "orig" THEN get_person_orig(t, year)
    ELSE get_person_ai(t, year, None)

\* the child of the for loop without the forced surname
ChildOutcomes_unforced(im, t, year) ==
    IF im = "orig" THEN get_person_orig(t, year)
    ELSE get_person_ai(t, year, None)

\* the child of the for loop: get_person(year), then
\* child.last_name = random.choice(list(self.root_last_names)) /
\* get_person(birth_year, override_last_name=random.choice(FOUNDER_LAST_NAMES))
ChildOutcomes(im, t, year) ==
    IF im = "orig"
    THEN {[exc |-> o.exc,
           person |-> IF o.exc = "" THEN [o.person EXCEPT !.last_name = n]
                      ELSE NoPerson] :
              o \in get_person_orig(t, year), n \in {"Jones", "Smith"}}
    ELSE UNION {get_person_ai(t, year, FOUNDER_LAST_NAMES[i]) :
                    i \in 1..Len(FOUNDER_LAST_NAMES)}

\* the marriage without the spouse's back-reference
Married_oneway(reg, p, spouse) ==
    Append([reg EXCEPT ![p].spouse = Len(reg) + 1], spouse)

\* the marriage of the dequeued person p to a new spouse
Married(reg, p, spouse) ==
    Append([reg EXCEPT ![p].spouse = Len(reg) + 1],
           [spouse EXCEPT !.spouse = p])

\* the marriage step entered whether or not the person has a spouse
HasSpouse_never(reg, p) == FALSE

\* not (current_person.spouse is None) / not (person.spouse is None)
HasSpouse(reg, p) == reg[p].spouse # 0

\* The head of a loop iteration: popleft, then the marriage step
\* (FamilyTree.py 125-140, family_tree_ai.py 68-80)
MarriageStep ==
    /\ pc = "loop"
    /\ queue # <<>>
    /\ LET p == Head(queue)
           decade == DecadeKey(people[p].year_born)
       IN  /\ queue' = Tail(queue)
           /\ current' = p
           /\ dequeued' = Append(dequeued, p)
           /\ IF HasSpouse(people, p)
              THEN /\ pc' = "fertility"
                   /\ UNCHANGED <<impl, table, variations, people, child_years, err, call>>
              ELSE IF impl = "orig" /\ decade \notin DOMAIN table.marriage_rates
              THEN Abort("KeyError")
              ELSE LET marriage_rate ==
                           IF impl = "orig" THEN table.marriage_rates[decade]
                           ELSE get_marriage_rate(table, decade)
                   IN  \E u \in RandomUnit :
                       IF u < marriage_rate
                       THEN \E v \in SpouseVariations :
                            \E o \in SpouseOutcomes(impl, table,
                                                    people[p].year_born + v) :
                               IF o.exc # "" THEN Abort(o.exc)
                               ELSE /\ people' = Married(people, p, o.person)
                                    /\ pc' = "fertility"
                                    /\ UNCHANGED <<impl, table, variations, child_years, err, call>>
                       ELSE /\ pc' = "fertility"
                            /\ UNCHANGED <<impl, table, variations, people, child_years, err, call>>

\* min_children of the fertility step
MinChildren(im, birth_rate) ==
    IF im = "orig" THEN Ceil(birth_rate - 15, 10)
    ELSE Max(0, Ceil(birth_rate - 15, 10))

\* max_children of the fertility step
MaxChildren(birth_rate) == Ceil(birth_rate + 15, 10)

\* the window counted from the dequeued person's own year of birth
ElderYear_own(reg, p) == reg[p].year_born

\* parent_year_born / elder_year
ElderYear(reg, p) ==
    IF reg[p].spouse # 0
        THEN Min(reg[p].year_born, reg[reg[p].spouse].year_born)
        ELSE reg[p].year_born

\* The fertility step and the birth-year distribution
\* (FamilyTree.py 143-160, family_tree_ai.py 83-100)
FertilityStep ==
    /\ pc = "fertility"
    /\ LET decade == DecadeKey(people[current].year_born)
       IN  IF impl = "orig" /\ decade \notin DOMAIN table.birth_rates
           THEN Abort("KeyError") /\ UNCHANGED <<queue, current, dequeued>>
           ELSE LET birth_rate == IF impl = "orig" THEN table.birth_rates[decade]
                                  ELSE get_birth_rate(table, decade)
                    min_children == MinChildren(impl, birth_rate)
                    max_children == MaxChildren(birth_rate)
                IN  IF min_children > max_children
                    THEN Abort("ValueError") /\ UNCHANGED <<queue, current, dequeued>>
                    ELSE \E num_children \in min_children..max_children :
                         /\ IF num_children = 0
                            THEN pc' = "loop" /\ child_years' = <<>>
                            ELSE /\ pc' = "children"
                                 /\ child_years' =
                                        BirthYears(impl,
                                            ElderYear(people, current) + WINDOW_START,
                                            ElderYear(people, current) + WINDOW_END,
                                            num_children)
                         /\ UNCHANGED <<impl, table, variations, dequeued, people, queue, current, err, call>>

\* the child appended twice to the children of p, never to the spouse's
WithChild_twice(reg, p, child) ==
    LET c == Len(reg) + 1
    IN  Append([reg EXCEPT ![p].children = Append(Append(@, c), c)], child)

\* the child appended to the registry only, in nobody's children
WithChild_unlinked(reg, p, child) == Append(reg, child)

\* the child put at the front of the spouse's children:
\* spouse.children.insert(0, child)
WithChild_spousefront(reg, p, child) ==
    LET c == Len(reg) + 1
        one == [reg EXCEPT ![p].children = Append(@, c)]
        both == IF reg[p].spouse # 0
                    THEN [one EXCEPT ![reg[p].spouse].children = <<c>> \o @]
                    ELSE one
    IN  Append(both, child)

\* the registry after the child is appended to the children of p and of
\* p's spouse, and to the registry
WithChild(reg, p, child) ==
    LET c == Len(reg) + 1
        one == [reg EXCEPT ![p].children = Append(@, c)]
        both == IF reg[p].spouse # 0
                    THEN [one EXCEPT ![reg[p].spouse].children = Append(@, c)]
                    ELSE one
    IN  Append(both, child)

\* the cutoff test against the last year of the data instead of 2120
WithinCutoff_data(year) == ~(year > YEAR_MAX)

\* whether the for loop materializes a child for this birth year
WithinCutoff(year) == ~(year > CUTOFF_YEAR)

\* the child put at the front of the queue: self.queue.appendleft(child)
Enqueued_front(q, child) == <<child>> \o q

\* self.queue.append(child) / frontier.append(child)
Enqueued(q, child) == Append(q, child)

\* One pass of the for loop over the birth years
\* (FamilyTree.py 162-176, family_tree_ai.py 102-113)
MaterializeChild ==
    /\ pc = "children"
    /\ child_years # <<>>
    /\ LET year == Head(child_years)
       IN  IF ~WithinCutoff(year)
           THEN /\ child_years' = Tail(child_years)
                /\ UNCHANGED <<impl, table, variations, dequeued, people, queue, pc, current, err, call>>
           ELSE \E o \in ChildOutcomes(impl, table, year) :
                IF o.exc # ""
                THEN Abort(o.exc) /\ UNCHANGED <<queue, current, dequeued>>
                ELSE /\ people' = WithChild(people, current, o.person)
                     /\ queue' = Enqueued(queue, Len(people) + 1)
                     /\ child_years' = Tail(child_years)
                     /\ UNCHANGED <<impl, table, variations, dequeued, pc, current, err, call>>

\* the for loop is exhausted: back to the while test
EndChildren ==
    /\ pc = "children"
    /\ child_years = <<>>
    /\ pc' = "loop"
    /\ UNCHANGED <<impl, table, variations, dequeued, people, queue, current, child_years, err, call>>

\* while self.queue / while frontier: the queue is empty
LoopExit ==
    /\ pc = "loop"
    /\ queue = <<>>
    /\ pc' = "done"
    /\ UNCHANGED <<impl, table, variations, dequeued, people, queue, current, child_years, err, call>>

(***************************************************************************)
(* Reporting: the menu of run().  A report returns what it prints, and the *)
(* registry as it leaves it.                                               *)
(***************************************************************************)
\* sorted() of a finite set of integers
RECURSIVE Sorted(_)
Sorted(S) ==
    IF S = {} THEN <<>>
    ELSE LET least == CHOOSE x \in S : \A y \in S : x <= y
         IN  <<least>> \o Sorted(S \ {least})

\* person.first_name + " " + person.last_name / Person.full_name
full_name(person) == person.first_name \o " " \o person.last_name

\* The first and last names of the model's tables and founders, in the
\* order of Python's string comparison; no first name is a prefix of
\* another, so full names compare by first name, then by last name.
SortedFirstNames == <<"Desmond", "Emma", "Kai", "Liam", "Molly", "Unknown">>
SortedLastNames == <<"Jones", "Lee", "Smith", "Unknown">>

SortedFullNames ==
    [k \in 1..(Len(SortedFirstNames) * Len(SortedLastNames)) |->
        SortedFirstNames[((k - 1) \div Len(SortedLastNames)) + 1] \o " "
            \o SortedLastNames[((k - 1) % Len(SortedLastNames)) + 1]]

\* the place of a full name in the order of Python's string comparison
StringRank(name) ==
    CHOOSE k \in DOMAIN SortedFullNames : SortedFullNames[k] = name

\* sorted() of a finite set of full names
SortedStrings(names) ==
    LET ranks == Sorted({StringRank(n) : n \in names})
    IN  [k \in DOMAIN ranks |-> SortedFullNames[ranks[k]]]

\* how often a full name occurs in the registry
NameCount(reg, name) ==
    Cardinality({i \in DOMAIN reg : full_name(reg[i]) = name})

\* FamilyTree.total_people / FamilyTree.total_count
total_people(reg) == [registry |-> reg, count |-> Len(reg), lines |-> <<>>]

\* FamilyTree.total_by_decade / FamilyTree.count_by_decade: one line
\* (decade, count) per decade somebody was born in, sorted by decade (as
\* strings in FamilyTree.py, as integers in family_tree_ai.py: the same order
\* for years of four digits)
total_by_decade(reg) ==
    LET born(i) == (reg[i].year_born \div 10) * 10
        order == Sorted({born(i) : i \in DOMAIN reg})
    IN  [registry |-> reg, count |-> 0,
         lines |-> [k \in DOMAIN order |->
                       <<DecadeKey(order[k]),
                         Cardinality({i \in DOMAIN reg : born(i) = order[k]})>>]]

\* duplicate_names with the names that are not duplicated popped from the
\* registry instead of from name_counts
duplicate_names_popping(reg) ==
    LET kept == {i \in DOMAIN reg : NameCount(reg, full_name(reg[i])) > 1}
        first == Sorted({i \in kept :
                            \A j \in 1..(i - 1) : full_name(reg[j]) # full_name(reg[i])})
        order == Sorted(kept)
    IN  [registry |-> [k \in DOMAIN order |-> reg[order[k]]],
         count |-> Len(first),
         lines |-> [k \in DOMAIN first |-> full_name(reg[first[k]])]]

\* FamilyTree.duplicate_names of FamilyTree.py: name_counts keeps the names
\* in the order of their first occurrence in the registry; the names
\* occurring once are popped from it; the rest is printed in that order
duplicate_names(reg) ==
    LET first == Sorted({i \in DOMAIN reg :
                            /\ \A j \in 1..(i - 1) : full_name(reg[j]) # full_name(reg[i])
                            /\ NameCount(reg, full_name(reg[i])) > 1})
    IN  [registry |-> reg,
         count |-> Len(first),
         lines |-> [k \in DOMAIN first |-> full_name(reg[first[k]])]]

\* FamilyTree.list_duplicate_names of family_tree_ai.py: the names counted
\* more than once, printed sorted
list_duplicate_names(reg) ==
    LET duplicates == {full_name(reg[i]) : i \in DOMAIN reg}
                          \cap {n \in {full_name(reg[i]) : i \in DOMAIN reg} :
                                    NameCount(reg, n) > 1}
        lines == SortedStrings(duplicates)
    IN  [registry |-> reg, count |-> Cardinality(duplicates), lines |-> lines]

DuplicateReport(im, reg) ==
    IF im = "orig" THEN duplicate_names(reg) ELSE list_duplicate_names(reg)

\* what the user may type at the prompt; EndOfInput is a closed stdin
EndOfInput == "<EOF>"
Inputs == {"T", "t", "D", " d", "N", "n ", "Q", "q", "X", "", EndOfInput}

\* input().strip().upper() on Inputs
StripUpper(typed) ==
    CASE typed \in {"T", "t"} -> "T"
      [] typed \in {"D", " d"} -> "D"
      [] typed \in {"N", "n "} -> "N"
      [] typed \in {"Q", "q"} -> "Q"
      [] OTHER -> typed

\* One pass of the menu loop of run(), after the generation.  A closed
\* stdin ends family_tree_ai.py (except EOFError: break) and is an uncaught
\* EOFError of FamilyTree.py.
Menu ==
    /\ pc = "done"
    /\ \E typed \in Inputs :
          IF typed = EndOfInput
          THEN /\ pc' = "quit"
               /\ err' = IF impl = "orig" THEN "EOFError" ELSE err
               /\ UNCHANGED <<people, call>>
          ELSE LET choice == StripUpper(typed)
               IN  IF choice = "Q"
                   THEN /\ pc' = "quit"
                        /\ UNCHANGED <<people, err, call>>
                   ELSE IF choice \in {"T", "D", "N"}
                   THEN LET report ==
                                CASE choice = "T" -> total_people(people)
                                  [] choice = "D" -> total_by_decade(people)
                                  [] choice = "N" -> DuplicateReport(impl, people)
                        IN  /\ people' = report.registry
                            /\ call' = [fn |-> choice, impl |-> impl,
                                        args |-> <<>>, exc |-> "",
                                        result |-> <<report.count, report.lines>>]
                            /\ UNCHANGED <<pc, err>>
                   ELSE \* "Invalid choice, please enter T, D, N, or Q."
                        /\ call' = [fn |-> "invalid", impl |-> impl,
                                    args |-> <<>>, exc |-> "", result |-> <<>>]
                        /\ UNCHANGED <<people, pc, err>>
    /\ UNCHANGED <<impl, table, variations, queue, current, child_years, dequeued>>

Next ==
    \/ CreateFounders
    \/ MarriageStep
    \/ FertilityStep
    \/ MaterializeChild
    \/ EndChildren
    \/ LoopExit
    \/ Menu

Spec == Init /\ [][Next]_vars

\* generation runs to completion once started: the loop is never suspended
FairSpec == Spec /\ WF_vars(Next)

(***************************************************************************)
(* The pure routines, called on bounded inputs                             *)
(***************************************************************************)
FirstStart == FOUNDER_YEAR + WINDOW_START
MaxOffset == 3
MaxSpan == 21
MaxCount == 6
MaxChoices == 2
MaxWeight == 2
MaxRate == 40

ChoiceNames == {"Ann", "Bob"}

\* the lists of (name, weight) pairs of at most MaxChoices entries
ChoiceLists ==
    UNION {[1..n -> ChoiceNames \X (0..MaxWeight)] : n \in 0..MaxChoices}

\* the calls of distribute_birth_years / _spread_birth_years to make
DistributeCalls ==
    {[fn |-> "distribute_birth_years", impl |-> im,
      args |-> <<start, start + span, count>>, exc |-> "", result |-> <<>>] :
        im \in Impls, start \in FirstStart..(FirstStart + MaxOffset),
        span \in 0..MaxSpan, count \in -1..MaxCount}

\* the calls of weighted_choice / _weighted_pick to make
WeightedCalls ==
    {[fn |-> "weighted_choice", impl |-> im,
      args |-> <<choices>>, exc |-> "", result |-> <<>>] :
        im \in Impls, choices \in ChoiceLists}

\* the child-count draws to make: birth rates -4.0 .. 4.0, in tenths
ChildCountCalls ==
    {[fn |-> "num_children", impl |-> im,
      args |-> <<birth_rate>>, exc |-> "", result |-> <<>>] :
        im \in Impls, birth_rate \in (-MaxRate)..MaxRate}

PureInit ==
    /\ impl = "orig"
    /\ table = TableChain
    /\ variations = {}
    /\ people = <<>>
    /\ queue = <<>>
    /\ pc = "call"
    /\ current = 0
    /\ child_years = <<>>
    /\ err = ""
    /\ \/ call \in DistributeCalls
       \/ call \in WeightedCalls
       \/ call \in ChildCountCalls
    /\ dequeued = <<>>

\* distribute_birth_years(start, end, num_children) /
\* _spread_birth_years(start, end, count)
CallDistribute ==
    /\ pc = "call"
    /\ call.fn = "distribute_birth_years"
    /\ call' = [call EXCEPT !.result =
                    BirthYears(call.impl, call.args[1], call.args[2], call.args[3])]
    /\ pc' = "returned"
    /\ UNCHANGED <<impl, table, variations, dequeued, people, queue, current,
                   child_years, err>>

\* weighted_choice(choices) / _weighted_pick(choices)
CallWeighted ==
    /\ pc = "call"
    /\ call.fn = "weighted_choice"
    /\ \E o \in WeightedSelect(call.impl, call.args[1]) :
          call' = [call EXCEPT !.exc = o.exc, !.result = <<o.name>>]
    /\ pc' = "returned"
    /\ UNCHANGED <<impl, table, variations, dequeued, people, queue, current,
                   child_years, err>>

\* num_children = random.randint(min_children, max_children);
\* random.randint raises ValueError on an empty range
CallChildCount ==
    /\ pc = "call"
    /\ call.fn = "num_children"
    /\ LET min_children == MinChildren(call.impl, call.args[1])
           max_children == MaxChildren(call.args[1])
       IN  IF min_children > max_children
           THEN call' = [call EXCEPT !.exc = "ValueError"]
           ELSE \E num_children \in min_children..max_children :
                    call' = [call EXCEPT !.result = <<num_children>>]
    /\ pc' = "returned"
    /\ UNCHANGED <<impl, table, variations, dequeued, people, queue, current,
                   child_years, err>>

PureNext == CallDistribute \/ CallWeighted \/ CallChildCount

PureSpec == PureInit /\ [][PureNext]_vars

(***************************************************************************)
(* Properties                                                              *)
(***************************************************************************)
Registry == 1..Len(people)

Founders == {1, 2}

\* p was materialized as a child: it is in some person's children sequence
IsChild(p) ==
    \E q \in Registry : \E i \in DOMAIN people[q].children :
        people[q].children[i] = p

\* p is a spouse synthesized by the marriage step
IsSynthesizedSpouse(p) == p \in Registry \ Founders /\ ~IsChild(p)

Occurrences(seq, x) == Cardinality({i \in DOMAIN seq : seq[i] = x})

\* the loop is at its while test, or has ended: nobody is half processed
BetweenIterations == pc \in {"loop", "done"}

\* C1: every run of the expansion loop reaches an empty queue and ends.
Terminates == <>(pc = "done" /\ queue = <<>>)

\* Every run of the expansion loop ends: with an empty queue, or with an
\* exception.
TerminatesOrRaises == <>(pc \in {"done", "error"})

\* C2: after founder creation and after each loop iteration, the spouse of
\* the spouse of every person in the registry who has one is that person.
SpouseSymmetry ==
    BetweenIterations =>
        \A p \in Registry :
            people[p].spouse # 0 =>
                /\ people[p].spouse \in Registry
                /\ people[people[p].spouse].spouse = p

SpouseSymmetryWitness ==
    /\ BetweenIterations
    /\ \E p \in Registry \ Founders :
          IsChild(p) /\ people[p].spouse # 0 /\ people[p].children # <<>>

\* C3 as stated: every person in the registry other than the two founders
\* has the last name Jones or Smith.
SurnameInvariant ==
    \A p \in Registry \ Founders : people[p].last_name \in {"Jones", "Smith"}

\* C3, amended: every person materialized as a child has the last name
\* Jones or Smith.
ChildSurname ==
    \A p \in Registry : IsChild(p) => people[p].last_name \in {"Jones", "Smith"}

ChildSurnameWitness ==
    \E p, q \in Registry :
        /\ IsChild(p) /\ people[p].last_name = "Jones"
        /\ IsChild(q) /\ people[q].last_name = "Smith"

\* C4 as stated: no person in the registry is born after 2120.
CutoffInvariant == \A p \in Registry : people[p].year_born <= CUTOFF_YEAR

\* C4, amended: no person materialized as a child is born after 2120, and
\* no person at all after 2129.
ChildCutoff ==
    \A p \in Registry :
        /\ IsChild(p) => people[p].year_born <= CUTOFF_YEAR
        /\ people[p].year_born <= YEAR_MAX

ChildCutoffWitness ==
    /\ pc = "done"
    /\ \E p \in Registry : IsChild(p) /\ people[p].year_born = CUTOFF_YEAR
    /\ \E p \in Registry : people[p].year_born = YEAR_MAX

\* C5: whatever decade the table lacks, no step of the generation raises.
NeverAborts == pc # "error"

\* C6: given an empty list or weights that are all zero, the weighted
\* choice returns "Unknown" and does not raise.
WeightedFallback ==
    (pc = "returned" /\ call.fn = "weighted_choice"
        /\ SumWeights(call.args[1]) = 0)
    => (call.exc = "" /\ call.result = <<"Unknown">>)

\* C7: no person is twice in a children sequence, a child of a person with
\* a spouse is once in the spouse's children sequence too, and every child
\* is in the registry.
ChildListsUnique ==
    \A p \in Registry : \A i \in DOMAIN people[p].children :
        LET c == people[p].children[i]
        IN  /\ c \in Registry
            /\ Occurrences(people[p].children, c) = 1
            /\ people[p].spouse # 0 =>
                   Occurrences(people[people[p].spouse].children, c) = 1

ChildListsUniqueWitness ==
    \E p \in Registry :
        /\ people[p].spouse # 0
        /\ Len(people[p].children) = 2
        /\ Len(people[people[p].spouse].children) = 2

\* C8: a person whose birth decade has a life expectancy of 11 or more dies
\* after the year of birth.
PositiveLifespan ==
    \A p \in Registry :
        get_life_expectancy(table, DecadeKey(people[p].year_born)) >= 110
            => people[p].year_died > people[p].year_born

PositiveLifespanWitness ==
    \E p, q \in Registry :
        /\ get_life_expectancy(table, DecadeKey(people[p].year_born)) = 110
        /\ people[p].year_died = people[p].year_born + 1
        /\ q \notin Founders
        /\ people[q].year_died > people[q].year_born

\* C9: for start <= end and count >= 0 the distribution returns count
\* years, each in [start, end], in non-decreasing order.
DistributeShape ==
    (pc = "returned" /\ call.fn = "distribute_birth_years"
        /\ call.args[1] <= call.args[2] /\ call.args[3] >= 0)
    => LET r == call.result
       IN  /\ Len(r) = call.args[3]
           /\ \A i \in 1..Len(r) : r[i] \in call.args[1]..call.args[2]
           /\ \A i \in 1..(Len(r) - 1) : r[i] <= r[i + 1]

DistributeShapeWitness ==
    /\ pc = "returned"
    /\ call.fn = "distribute_birth_years"
    /\ call.args[3] = 4
    /\ Len(call.result) = 4
    /\ call.result[1] < call.result[2]
    /\ call.result[4] = call.args[2]

\* C10: for start <= end and count > 1 the first year is start, the last
\* is end, and adjacent years differ by at most
\* ceil((end - start) / (count - 1)).
EvenSpacing ==
    (pc = "returned" /\ call.fn = "distribute_birth_years"
        /\ call.args[1] <= call.args[2] /\ call.args[3] > 1)
    => LET r == call.result
           count == call.args[3]
       IN  /\ Len(r) = count
           /\ r[1] = call.args[1]
           /\ r[count] = call.args[2]
           /\ \A i \in 1..(count - 1) :
                  r[i + 1] - r[i] <= Ceil(call.args[2] - call.args[1], count - 1)

EvenSpacingWitness ==
    /\ pc = "returned"
    /\ call.fn = "distribute_birth_years"
    /\ call.args[3] = 4
    /\ call.args[2] - call.args[1] = WINDOW_END - WINDOW_START
    /\ call.result[2] - call.result[1] = 7
    /\ call.result[3] - call.result[2] = 6

\* C11: for start <= end, a count of 1 gives the one year nearest to the
\* midpoint (start + end) / 2, the even one of the two when the midpoint is
\* a half; a count of 0 or less gives the empty list.
DegenerateCounts ==
    (pc = "returned" /\ call.fn = "distribute_birth_years"
        /\ call.args[1] <= call.args[2] /\ call.args[3] <= 1)
    => LET r == call.result
           sum == call.args[1] + call.args[2]
       IN  IF call.args[3] = 1
           THEN /\ Len(r) = 1
                /\ 2 * r[1] - sum \in {-1, 0, 1}
                /\ sum % 2 = 1 => r[1] % 2 = 0
           ELSE r = <<>>

\* a single child whose midpoint is a half and rounds down to the even year
DegenerateCountsWitness ==
    /\ pc = "returned"
    /\ call.fn = "distribute_birth_years"
    /\ call.args[3] = 1
    /\ (call.args[1] + call.args[2]) % 2 = 1
    /\ 2 * call.result[1] = call.args[1] + call.args[2] - 1

\* C12: once the generation has finished, no step (a report T, D or N, an
\* invalid input, quitting) changes the registry or any person in it; and
\* no step at all removes a person from the registry or alters the names or
\* years of a person already in it.
ReportingReadOnly ==
    [][ /\ pc \in {"done", "quit"} => people' = people
        /\ Len(people') >= Len(people)
        /\ \A p \in DOMAIN people :
              /\ people'[p].first_name = people[p].first_name
              /\ people'[p].last_name = people[p].last_name
              /\ people'[p].year_born = people[p].year_born
              /\ people'[p].year_died = people[p].year_died ]_vars

\* the duplicate report has run on a registry with children and spouses
\* and has found names to print
ReportingReadOnlyWitness ==
    /\ pc = "done"
    /\ call.fn = "N"
    /\ call.result[1] >= 1
    /\ \E p \in DOMAIN people : people[p].spouse # 0 /\ Len(people[p].children) >= 2

\* the full names that occur more than once in the registry
DuplicatedNames ==
    {n \in {full_name(people[i]) : i \in DOMAIN people} : NameCount(people, n) > 1}

\* C13: the report N lists exactly the full names that occur more than once
\* in the registry, each once, prints their number, and lists them in sorted
\* order.
DuplicateNamesReport ==
    (pc \in {"done", "quit"} /\ call.fn = "N")
    => LET count == call.result[1]
           lines == call.result[2]
       IN  /\ {lines[k] : k \in DOMAIN lines} = DuplicatedNames
           /\ Len(lines) = Cardinality(DuplicatedNames)
           /\ count = Cardinality(DuplicatedNames)
           /\ \A k \in 1..(Len(lines) - 1) :
                  StringRank(lines[k]) < StringRank(lines[k + 1])

\* The report N lists exactly the full names that occur more than once,
\* each once, and prints their number; family_tree_ai.py lists them sorted.
DuplicateNamesContent ==
    (pc \in {"done", "quit"} /\ call.fn = "N")
    => LET count == call.result[1]
           lines == call.result[2]
       IN  /\ {lines[k] : k \in DOMAIN lines} = DuplicatedNames
           /\ Len(lines) = Cardinality(DuplicatedNames)
           /\ count = Cardinality(DuplicatedNames)
           /\ impl = "ai" =>
                  \A k \in 1..(Len(lines) - 1) :
                      StringRank(lines[k]) < StringRank(lines[k + 1])

\* the persons popped from the queue so far
Dequeued == {dequeued[i] : i \in DOMAIN dequeued}

\* the children materialized while p was the dequeued person
ChildrenOf(p) == {people[p].children[i] : i \in DOMAIN people[p].children}

\* C14 as stated: every child materialized while processing a dequeued
\* person P is born at least 25 years after P.
LaterGeneration ==
    \A p \in Dequeued : \A c \in ChildrenOf(p) :
        people[c].year_born >= people[p].year_born + WINDOW_START

\* C14, amended: every child materialized while processing a dequeued
\* person P is born at least 25 years after the elder of P and P's spouse,
\* hence at least 15 years after P, and at least 25 years after a P who has
\* no spouse or no older spouse.
LaterGenerationElder ==
    \A p \in Dequeued : \A c \in ChildrenOf(p) :
        /\ people[c].year_born >= ElderYear(people, p) + WINDOW_START
        /\ people[c].year_born >= people[p].year_born + WINDOW_START - NOISE
        /\ ElderYear(people, p) = people[p].year_born
               => people[c].year_born >= people[p].year_born + WINDOW_START

\* a person with a spouse 10 years older and a child born 15 years after
\* that person
LaterGenerationElderWitness ==
    /\ BetweenIterations
    /\ \E p \in Dequeued : \E c \in ChildrenOf(p) :
          /\ people[p].spouse # 0
          /\ people[people[p].spouse].year_born = people[p].year_born - NOISE
          /\ people[c].year_born = people[p].year_born + WINDOW_START - NOISE

\* C15: every child materialized while processing a dequeued person P is
\* born, as stored in the registry, in [elder_year + 25, elder_year + 45],
\* elder_year being the smaller of the years of birth of P and P's spouse,
\* or P's own when P has no spouse.
BirthWindow ==
    \A p \in Dequeued : \A c \in ChildrenOf(p) :
        LET elder_year ==
                IF people[p].spouse # 0
                THEN Min(people[p].year_born, people[people[p].spouse].year_born)
                ELSE people[p].year_born
        IN  /\ people[c].year_born >= elder_year + WINDOW_START
            /\ people[c].year_born <= elder_year + WINDOW_END

\* a couple whose elder is the spouse, with a child at each end of the window
BirthWindowWitness ==
    /\ BetweenIterations
    /\ \E p \in Dequeued : \E c, d \in ChildrenOf(p) :
          /\ people[p].spouse # 0
          /\ people[people[p].spouse].year_born < people[p].year_born
          /\ people[c].year_born = people[people[p].spouse].year_born + WINDOW_START
          /\ people[d].year_born = people[people[p].spouse].year_born + WINDOW_END

\* C16: for every birth rate the number of children drawn lies in
\* [max(0, ceil(birth_rate - 1.5)), ceil(birth_rate + 1.5)]: the draw does
\* not fail, and the count is never negative.
ChildCountRange ==
    (pc = "returned" /\ call.fn = "num_children")
    => LET birth_rate == call.args[1]
           lower == Max(0, Ceil(birth_rate - 15, 10))
           upper == Ceil(birth_rate + 15, 10)
       IN  /\ lower <= upper
           /\ call.exc = ""
           /\ call.result[1] \in lower..upper

\* What does hold of the draw: family_tree_ai.py draws in that range for a
\* birth rate above -2.5 and raises ValueError for a lower one; FamilyTree.py
\* never raises and draws in [ceil(birth_rate - 1.5), ceil(birth_rate + 1.5)],
\* negative counts included.
ChildCountRangeByVariant ==
    (pc = "returned" /\ call.fn = "num_children")
    => LET birth_rate == call.args[1]
           upper == Ceil(birth_rate + 15, 10)
       IN  IF call.impl = "ai"
           THEN IF birth_rate > -25
                THEN call.exc = ""
                     /\ call.result[1] \in Max(0, Ceil(birth_rate - 15, 10))..upper
                ELSE call.exc = "ValueError"
           ELSE call.exc = ""
                /\ call.result[1] \in Ceil(birth_rate - 15, 10)..upper

\* the birth line: the first founder and the persons created as children
BirthLine == {1} \cup {p \in Registry : IsChild(p)}

\* C17: the queue holds only the first founder or persons created as
\* children; the second founder and the synthesized spouses are never in
\* the queue, never popped from it, and never the person being processed.
OnlyBirthLine ==
    /\ \A i \in DOMAIN queue : queue[i] \in BirthLine
    /\ Dequeued \subseteq BirthLine
    /\ current # 0 => current \in BirthLine
    /\ \A p \in Registry :
          (p = 2 \/ IsSynthesizedSpouse(p)) =>
              /\ p \notin Dequeued
              /\ p # current
              /\ \A i \in DOMAIN queue : queue[i] # p

\* the run has ended with a synthesized spouse who has children and was
\* never popped, while a child of that spouse was
OnlyBirthLineWitness ==
    /\ pc = "done"
    /\ \E s \in Registry : \E c \in Dequeued :
          /\ IsSynthesizedSpouse(s)
          /\ c \in ChildrenOf(s)
          /\ s \notin Dequeued

\* C18: a spouse link, once set, is never replaced: in every step, a person
\* who has a spouse keeps that spouse, so a spouse is only ever given to a
\* person who has none.
SpouseNeverReplaced ==
    [][ \A p \in DOMAIN people :
            people[p].spouse # 0 => people'[p].spouse = people[p].spouse ]_vars

\* the first founder, married from the start, has passed a marriage step
\* whose rate made marriage certain and still has the second founder as
\* spouse; a child has been given a spouse
SpouseNeverReplacedWitness ==
    /\ pc = "done"
    /\ get_marriage_rate(table, DecadeKey(people[1].year_born)) = 10
    /\ 1 \in Dequeued
    /\ people[1].spouse = 2
    /\ \E p \in Dequeued \ {1} : people[p].spouse # 0

\* the persons one spouse or children edge away from a person of S
Neighbours(S) ==
    {people[p].spouse : p \in {q \in S : people[q].spouse # 0}}
        \cup UNION {ChildrenOf(p) : p \in S}

\* the persons reachable from S by following spouse and children edges
RECURSIVE ReachableFrom(_)
ReachableFrom(S) ==
    IF Neighbours(S) \subseteq S THEN S ELSE ReachableFrom(S \cup Neighbours(S))

\* C19: after each dequeued person has been fully processed, every person
\* in the registry is reachable from the first founder by following spouse
\* and children edges.
AllReachable ==
    (BetweenIterations /\ people # <<>>) => ReachableFrom({1}) = Registry

\* a finished run with two synthesized spouses, one the spouse of a child
\* of the other: reaching the second takes children edges and a spouse edge
AllReachableWitness ==
    /\ pc = "done"
    /\ \E s, c, t \in Registry :
          /\ IsSynthesizedSpouse(s)
          /\ c \in ChildrenOf(s)
          /\ people[c].spouse = t
          /\ IsSynthesizedSpouse(t)

\* the generation depth of a person of the birth line who has been
\* enqueued: the number of child edges from the first founder
RECURSIVE Depth(_)
Depth(p) ==
    IF p = 1 THEN 0
    ELSE 1 + Depth(CHOOSE q \in Dequeued : p \in ChildrenOf(q))

\* The persons enqueued so far, those popped first: they are in the order
\* they were enqueued in, which is the order they were created in.
FifoOrder ==
    LET enqueued == dequeued \o queue
    IN  /\ \A i \in 1..(Len(enqueued) - 1) : enqueued[i] < enqueued[i + 1]
        /\ people # <<>> => {enqueued[i] : i \in DOMAIN enqueued} = BirthLine

\* the depth of the persons popped never decreases
DepthOrder ==
    \A i \in 1..(Len(dequeued) - 1) :
        Depth(dequeued[i]) <= Depth(dequeued[i + 1])

\* C20: persons are dequeued in the order they were enqueued; a person is
\* dequeued only at the while test, when every step for the person before
\* (marriage, child-count draw, all the children) is done; the generation
\* depth of the persons dequeued one after another never decreases.
BreadthFirst ==
    /\ [](FifoOrder /\ DepthOrder)
    /\ [](pc \in {"fertility", "children"} =>
              dequeued # <<>> /\ current = dequeued[Len(dequeued)])
    /\ [][ dequeued' # dequeued =>
              /\ pc = "loop" /\ child_years = <<>> /\ queue # <<>>
              /\ dequeued' = Append(dequeued, Head(queue))
              /\ queue' = Tail(queue)
              /\ current' = Head(queue) ]_vars

\* a finished run that dequeued two persons of one depth, 2 or more, one
\* after the other, and persons of a greater depth after them
BreadthFirstWitness ==
    /\ pc = "done"
    /\ \E i \in 1..(Len(dequeued) - 1) :
          /\ Depth(dequeued[i]) >= 2
          /\ Depth(dequeued[i]) = Depth(dequeued[i + 1])
          /\ Depth(dequeued[Len(dequeued)]) > Depth(dequeued[i])

\* C21: the year of birth stored on a spouse synthesized in the marriage
\* step of a dequeued person P is within 10 years of P's.
SpouseAgeGap ==
    \A q \in Registry :
        IsSynthesizedSpouse(q) =>
            LET P == people[q].spouse
            IN  /\ P \in Dequeued
                /\ people[q].year_born >= people[P].year_born - NOISE
                /\ people[q].year_born <= people[P].year_born + NOISE

\* a person born in 2120 whose spouse, drawn 10 years younger, is stored
\* with the last year of the data
SpouseAgeGapWitness ==
    \E q \in Registry :
        /\ IsSynthesizedSpouse(q)
        /\ people[q].spouse \in Dequeued
        /\ people[people[q].spouse].year_born = CUTOFF_YEAR
        /\ people[q].year_born = YEAR_MAX

\* nobody is twice among the persons enqueued so far, popped or waiting
EnqueuedOnce ==
    LET enqueued == dequeued \o queue
    IN  \A i, j \in DOMAIN enqueued : i # j => enqueued[i] # enqueued[j]

\* the loop has ended with everybody of the birth line popped and processed
AllProcessed ==
    /\ pc \in {"done", "quit"}
    /\ people # <<>>
    /\ queue = <<>>
    /\ Dequeued = BirthLine

\* C22: each person is enqueued at most once, and every person enqueued
\* (the first founder and every materialized child) is in the end dequeued
\* and processed, once, before the loop ends.
EveryoneProcessedOnce == []EnqueuedOnce /\ <>AllProcessed

\* Each person is enqueued at most once, and every run either ends with
\* everybody enqueued dequeued and processed once, or is ended by an
\* exception; family_tree_ai.py is never ended by one.
EveryoneProcessedOnceOrRaises ==
    /\ []EnqueuedOnce
    /\ <>(AllProcessed \/ pc = "error")
    /\ [](impl = "ai" => pc # "error")

\* C23: after each dequeued person has been fully processed, the children
\* of a person with a spouse and the children of that spouse are the same
\* sequence of persons.
CouplesShareChildren ==
    BetweenIterations =>
        \A p \in Registry :
            people[p].spouse # 0 =>
                people[p].children = people[people[p].spouse].children

\* a finished run with a synthesized spouse who has two children or more
CouplesShareChildrenWitness ==
    /\ pc = "done"
    /\ \E q \in Registry :
          /\ IsSynthesizedSpouse(q)
          /\ Len(people[q].children) >= 2
          /\ people[q].children[1] # people[q].children[2]

\* what the two implementations are compared on: a person without the
\* first name and the year of death
Projected(outcomes) ==
    {[exc |-> o.exc, year_born |-> o.person.year_born,
      last_name |-> o.person.last_name] : o \in outcomes}

\* What the child-count draw and the birth-year distribution can give a
\* dequeued person, by the birth rate of the person's decade and the elder
\* year: the lists of birth years, or the exception of the draw.
DrawOutcomes(im, birth_rate, elder_year) ==
    LET min_children == MinChildren(im, birth_rate)
        max_children == MaxChildren(birth_rate)
    IN  IF min_children > max_children
        THEN {[exc |-> "ValueError", years |-> <<>>]}
        ELSE {[exc |-> "",
               years |-> BirthYears(im, elder_year + WINDOW_START,
                                    elder_year + WINDOW_END, num_children)] :
                  num_children \in min_children..max_children}

\* the table has an entry for every decade from the 1950s to the 2120s
CompleteTable(t) ==
    \A y \in AllDecades :
        /\ \A g \in Genders : <<DecadeKey(y), g>> \in DOMAIN t.first_names
        /\ DecadeKey(y) \in DOMAIN t.last_names
        /\ DecadeKey(y) \in DOMAIN t.life_expectancy
        /\ DecadeKey(y) \in DOMAIN t.birth_rates
        /\ DecadeKey(y) \in DOMAIN t.marriage_rates

\* C24: the two implementations agree.  On the routines: for every input
\* distribute_birth_years and _spread_birth_years return the same list; for
\* every birth rate the child-count draw leads to the same lists of birth
\* years, or to the same exception, in both; a weighted choice from a list
\* that is not empty has the same outcomes in both.  (With the same choices
\* at every step, the two expansions reach the same final registries.)
ImplementationsAgree ==
    pc = "returned" =>
        /\ call.fn = "distribute_birth_years" =>
               distribute_birth_years(call.args[1], call.args[2], call.args[3])
                   = spread_birth_years(call.args[1], call.args[2], call.args[3])
        /\ call.fn = "num_children" =>
               DrawOutcomes("orig", call.args[1], FOUNDER_YEAR)
                   = DrawOutcomes("ai", call.args[1], FOUNDER_YEAR)
        /\ (call.fn = "weighted_choice" /\ call.args[1] # <<>>) =>
               weighted_choice(call.args[1]) = weighted_pick(call.args[1])

\* What does hold of the routines: the two distributions return the same
\* list, the weighted choices from a list that is not empty agree, and the
\* draws agree for a birth rate above -2.5; for a lower one FamilyTree.py
\* gives no children and family_tree_ai.py raises ValueError.
RoutinesAgreeAboveFloor ==
    pc = "returned" =>
        /\ call.fn = "distribute_birth_years" =>
               distribute_birth_years(call.args[1], call.args[2], call.args[3])
                   = spread_birth_years(call.args[1], call.args[2], call.args[3])
        /\ call.fn = "num_children" =>
               IF call.args[1] > -25
               THEN DrawOutcomes("orig", call.args[1], FOUNDER_YEAR)
                        = DrawOutcomes("ai", call.args[1], FOUNDER_YEAR)
               ELSE /\ DrawOutcomes("orig", call.args[1], FOUNDER_YEAR)
                           = {[exc |-> "", years |-> <<>>]}
                    /\ DrawOutcomes("ai", call.args[1], FOUNDER_YEAR)
                           = {[exc |-> "ValueError", years |-> <<>>]}
        /\ (call.fn = "weighted_choice" /\ call.args[1] # <<>>) =>
               weighted_choice(call.args[1]) = weighted_pick(call.args[1])

\* In a run on a complete table whose birth rates are above -2.5, whichever
\* implementation runs, the other one has the same choices at the step to
\* come, first names and years of death ignored: the same marriage rate and
\* spouses, the same lists of birth years, the same children.
StepsAgree ==
    (CompleteTable(table)
        /\ \A y \in AllDecades : table.birth_rates[DecadeKey(y)] > -25)
    => /\ (pc = "loop" /\ queue # <<>>) =>
              LET p == Head(queue)
                  decade == DecadeKey(people[p].year_born)
              IN  /\ table.marriage_rates[decade] = get_marriage_rate(table, decade)
                  /\ \A v \in SpouseVariations :
                        Projected(SpouseOutcomes("orig", table, people[p].year_born + v))
                            = Projected(SpouseOutcomes("ai", table, people[p].year_born + v))
       /\ pc = "fertility" =>
              LET decade == DecadeKey(people[current].year_born)
              IN  DrawOutcomes("orig", table.birth_rates[decade],
                               ElderYear(people, current))
                      = DrawOutcomes("ai", get_birth_rate(table, decade),
                                     ElderYear(people, current))
       /\ (pc = "children" /\ child_years # <<>>) =>
              Projected(ChildOutcomes("orig", table, Head(child_years)))
                  = Projected(ChildOutcomes("ai", table, Head(child_years)))

====
